---- MODULE Spec2Model ----
(***************************************************************************)
(* Enrollment core of inclusive_world_portal: the Enrollment, Program and  *)
(* BuddyAssignment tables and the request handlers of portal/views.py that *)
(* write them.  Every handler is a process in a request slot; one step of  *)
(* a handler is one database statement (Django runs in autocommit mode, so *)
(* each statement is visible to the other requests as soon as it ran).     *)
(***************************************************************************)
EXTENDS Integers, Sequences, FiniteSets, TLC

\* ---------------------------------------------------------------- bounds
MaxSlots == 2
MaxRequests == 3
MaxEnrolled == 4

Nil == "none"

\* ------------------------------------------------------- users and roles
Members == {"m1"}
Volunteers == {"v1", "v2"}
Managers == {"mgr"}
PersonCenteredManagers == {"pcm"}
Users == Members \cup Volunteers \cup Managers

Role(u) ==
  IF u \in Members THEN "member"
  ELSE IF u \in Volunteers THEN "volunteer"
  ELSE IF u \in PersonCenteredManagers THEN "person_centered_manager"
  ELSE "manager"

Programs == {"A", "B"}

EnrollmentStatus == {"pending", "approved", "waitlisted", "rejected", "withdrawn"}
PostedStatuses == EnrollmentStatus \cup {"bogus"}

Slots == 1 .. MaxSlots

VARIABLES
  Program,          \* Program table: program_id -> [capacity, enrolled, archived]
  Enrollment,       \* Enrollment table: set of rows
  BuddyAssignment,  \* BuddyAssignment table: set of rows
  enrollment_open,  \* EnrollmentSettings.enrollment_open (the default while no row exists)
  settings_rows,    \* EnrollmentSettings table: the primary keys of its rows
  RoleEnrollmentRequirement,  \* RoleEnrollmentRequirement table: set of rows
  session,          \* request.session['program_selections'] of each user
  req,              \* request slots: the handler in flight, its position and locals
  consumed,         \* history: <<user, payment intent>> of every confirmation that succeeded
  budget            \* requests that may still start in this behaviour

vars == <<Program, Enrollment, BuddyAssignment, enrollment_open, settings_rows,
          RoleEnrollmentRequirement, session, req, consumed, budget>>

\* the tables behind the eligibility gate
gate_vars == <<settings_rows, RoleEnrollmentRequirement>>

\* ------------------------------------------------------ enrollment settings
\* primary key of the singleton row
SettingsPk == 1

\* EnrollmentSettings.get_settings(): fetch the singleton, create it if missing
get_settings(rows) == IF rows = {} THEN {SettingsPk} ELSE rows

\* ---------------------------------------------------------- table helpers
RowsOf(table, u, p) == {e \in table : e.user = u /\ e.program = p}
RowsById(table, id) == {e \in table : e.enrollment_id = id}
Approved(table, p) == {e \in table : e.program = p /\ e.status = "approved"}

MaxId(table) ==
  IF table = {} THEN 0
  ELSE CHOOSE n \in {e.enrollment_id : e \in table} :
         \A e \in table : e.enrollment_id <= n

\* unique_together = (("user", "program"),)
EnrollmentUnique(table, u, p) == RowsOf(table, u, p) = {}

\* preference_order is nullable: 0 stands for NULL, ranks start at 1
NewEnrollment(table, u, p, st, rank, by) ==
  [enrollment_id |-> MaxId(table) + 1, user |-> u, program |-> p, status |-> st,
   preference_order |-> rank, assigned_by |-> by]

\* a receiver that counts every created row, whatever its status
bump_enrollment_on_save(prog, row) ==
  [prog EXCEPT ![row.program].enrolled = @ + 1]

\* post_save receiver: F("enrolled") + 1 for a row created as approved
bump_enrollment_on_create(prog, row) ==
  IF row.status = "approved"
  THEN [prog EXCEPT ![row.program].enrolled = @ + 1]
  ELSE prog

\* post_delete receiver: F("enrolled") - 1 on the program's row if enrolled > 0,
\* whatever the status of the deleted row
lower_enrollment_on_delete(prog, row) ==
  IF prog[row.program].enrolled > 0
  THEN [prog EXCEPT ![row.program].enrolled = @ - 1]
  ELSE prog

\* Model.save() of a loaded Enrollment: UPDATE of every column by primary key
SaveEnrollment(table, row) ==
  (table \ RowsById(table, row.enrollment_id)) \cup {row}

\* ---------------------------------------------------------- request slots
\* values of a handler's row variables before it fetched a row
NoEnrollment ==
  [enrollment_id |-> 0, user |-> Nil, program |-> Nil, status |-> Nil,
   preference_order |-> 0, assigned_by |-> Nil]
NoProgram == [capacity |-> 0, enrolled |-> 0, archived |-> FALSE]

IdleReq ==
  [kind |-> "idle", pc |-> "idle", actor |-> Nil, enrollment |-> NoEnrollment,
   new_status |-> Nil, old_status |-> Nil, program |-> NoProgram, pid |-> Nil,
   target |-> Nil, selections |-> <<>>, i |-> 0, written |-> {},
   intent |-> Nil, volunteer |-> Nil, replay |-> FALSE, spots |-> 0,
   settings |-> 0, resp |-> Nil]

Free(s) == req[s].pc \in {"idle", "done"}
CanStart(s) == Free(s) /\ budget > 0

\* a finished request keeps its handler, the posted payment intent or
\* volunteer, and its response
Done(r, response) ==
  [IdleReq EXCEPT !.kind = r.kind, !.pc = "done", !.intent = r.intent,
                  !.volunteer = r.volunteer, !.resp = response]

\* ------------------------------------------------- staff status updates
\* The three entry points share the body: ajax_update_enrollment_status and
\* the update_enrollment_status action of all_members_view / all_volunteers_view.
StatusEntries == {"ajax_status", "members_status", "volunteers_status"}

\* counter delta decided from the previous and the new status
StatusDelta(old, new) ==
  IF old # "approved" /\ new = "approved" THEN 1
  ELSE IF old = "approved" /\ new # "approved" THEN -1
  ELSE 0

Max0(n) == IF n < 0 THEN 0 ELSE n

\* role gate, get_object_or_404(Enrollment), status validation
UpdateStatusStart(s, entry, actor, eid, new_status) ==
  /\ CanStart(s)
  /\ budget' = budget - 1
  /\ LET r0 == [IdleReq EXCEPT !.kind = entry, !.actor = actor,
                               !.new_status = new_status]
         found == RowsById(Enrollment, eid)
     IN  req' = [req EXCEPT ![s] =
           IF Role(actor) # "manager" THEN Done(r0, "denied")
           ELSE IF found = {} THEN Done(r0, "not_found")
           ELSE IF new_status \notin EnrollmentStatus THEN Done(r0, "invalid_status")
           ELSE LET e == CHOOSE x \in found : TRUE
                IN  [r0 EXCEPT !.pc = "save_enrollment", !.enrollment = e,
                               !.old_status = e.status, !.pid = e.program]]
  /\ UNCHANGED gate_vars
  /\ UNCHANGED <<Program, Enrollment, BuddyAssignment, enrollment_open, session, consumed>>

\* enrollment.status = new_status; assigned_by = request.user; enrollment.save()
UpdateStatusSaveEnrollment(s) ==
  /\ req[s].kind \in StatusEntries
  /\ req[s].pc = "save_enrollment"
  /\ LET row == [req[s].enrollment EXCEPT !.status = req[s].new_status,
                                          !.assigned_by = req[s].actor]
     IN  /\ Enrollment' = SaveEnrollment(Enrollment, row)
         /\ req' = [req EXCEPT ![s].pc = "load_program", ![s].enrollment = row]
  /\ UNCHANGED gate_vars
  /\ UNCHANGED <<Program, BuddyAssignment, enrollment_open, session, budget, consumed>>

\* program = enrollment.program  (the related row is fetched here)
UpdateStatusLoadProgram(s) ==
  /\ req[s].kind \in StatusEntries
  /\ req[s].pc = "load_program"
  /\ req' = [req EXCEPT ![s] =
       IF StatusDelta(req[s].old_status, req[s].new_status) = 0
       THEN Done(req[s], "ok")
       ELSE [req[s] EXCEPT !.pc = "save_program", !.program = Program[req[s].pid]]]
  /\ UNCHANGED gate_vars
  /\ UNCHANGED <<Program, Enrollment, BuddyAssignment, enrollment_open, session, budget, consumed>>

\* value the handler computes in memory from the row it fetched
NewEnrolled(read, old, new) == Max0(read + StatusDelta(old, new))

\* a counter update that refuses an approval once the program is full
UpdateStatusSaveProgramCapped(s) ==
  /\ req[s].kind \in StatusEntries
  /\ req[s].pc = "save_program"
  /\ LET n == NewEnrolled(req[s].program.enrolled, req[s].old_status, req[s].new_status)
         full == /\ StatusDelta(req[s].old_status, req[s].new_status) = 1
                 /\ req[s].program.enrolled >= req[s].program.capacity
     IN  /\ n <= MaxEnrolled
         /\ Program' = IF full THEN Program
                       ELSE [Program EXCEPT ![req[s].pid] =
                               [req[s].program EXCEPT !.enrolled = n]]
         /\ req' = [req EXCEPT ![s] = Done(req[s], IF full THEN "program_full" ELSE "ok")]
  /\ UNCHANGED gate_vars
  /\ UNCHANGED <<Enrollment, BuddyAssignment, enrollment_open, session, budget, consumed>>

\* program.enrolled += 1 / max(0, program.enrolled - 1); program.save()
UpdateStatusSaveProgram(s) ==
  /\ req[s].kind \in StatusEntries
  /\ req[s].pc = "save_program"
  /\ LET n == NewEnrolled(req[s].program.enrolled, req[s].old_status, req[s].new_status)
     IN  /\ n <= MaxEnrolled
         /\ Program' = [Program EXCEPT ![req[s].pid] =
                          [req[s].program EXCEPT !.enrolled = n]]
  /\ req' = [req EXCEPT ![s] = Done(req[s], "ok")]
  /\ UNCHANGED gate_vars
  /\ UNCHANGED <<Enrollment, BuddyAssignment, enrollment_open, session, budget, consumed>>

StaffActors == Managers

ajax_update_enrollment_status(s) ==
  \E actor \in StaffActors, eid \in 0 .. MaxId(Enrollment), st \in PostedStatuses :
    UpdateStatusStart(s, "ajax_status", actor, eid, st)

all_members_update_enrollment_status(s) ==
  \E actor \in StaffActors, eid \in 0 .. MaxId(Enrollment), st \in PostedStatuses :
    UpdateStatusStart(s, "members_status", actor, eid, st)

all_volunteers_update_enrollment_status(s) ==
  \E actor \in StaffActors, eid \in 0 .. MaxId(Enrollment), st \in PostedStatuses :
    UpdateStatusStart(s, "volunteers_status", actor, eid, st)


\* --------------------------------------------------- selection and checkout
Item(p, rank) == [program_id |-> p, rank |-> rank]
SelectionChoices ==
  {<<Item("A", 1)>>, <<Item("B", 1)>>, <<Item("A", 1), Item("B", 2)>>}

SelectedPrograms(sel) == {sel[k].program_id : k \in 1 .. Len(sel)}
Unarchived(prog, ps) == {p \in ps : ~prog[p].archived}

\* an update_or_create whose defaults leave the rank out
UpdateOrCreateEnrollmentUnranked(table, u, p, rank) ==
  IF EnrollmentUnique(table, u, p)
  THEN table \cup {NewEnrollment(table, u, p, "pending", 0, Nil)}
  ELSE (table \ RowsOf(table, u, p)) \cup
         {[e EXCEPT !.status = "pending"] : e \in RowsOf(table, u, p)}

\* Enrollment.objects.update_or_create(user, program, defaults={status: pending,
\* preference_order: rank}); the lookup and the write are one locked operation
UpdateOrCreateEnrollment(table, u, p, rank) ==
  IF EnrollmentUnique(table, u, p)
  THEN table \cup {NewEnrollment(table, u, p, "pending", rank, Nil)}
  ELSE (table \ RowsOf(table, u, p)) \cup
         {[e EXCEPT !.status = "pending", !.preference_order = rank] :
            e \in RowsOf(table, u, p)}

\* program_selection_view, POST: validate the posted programs, store the basket
program_selection_view ==
  \E u \in Members, forms_are_complete \in BOOLEAN, sel \in SelectionChoices :
    /\ budget > 0
    /\ budget' = budget - 1
    /\ session' =
         IF /\ forms_are_complete
            /\ enrollment_open
            /\ Unarchived(Program, SelectedPrograms(sel)) = SelectedPrograms(sel)
         THEN [session EXCEPT ![u] = sel]
         ELSE session
    /\ settings_rows' = get_settings(settings_rows)
    /\ UNCHANGED RoleEnrollmentRequirement
    /\ UNCHANGED <<Program, Enrollment, BuddyAssignment, enrollment_open, req, consumed>>

\* what stripe.PaymentIntent.retrieve answers for a posted payment_intent_id
PostedIntents == {Nil, "pi_unknown", "pi_processing", "pi_succeeded"}
IntentStatus(id) ==
  IF id = "pi_succeeded" THEN "succeeded"
  ELSE IF id = "pi_processing" THEN "processing"
  ELSE "raises"

\* a gate that only asks whether the intent can be retrieved
PaymentGateRetrievedOnly(intent) ==
  IF intent = Nil THEN "missing_payment_intent"
  ELSE IF IntentStatus(intent) = "raises" THEN "invalid_payment"
  ELSE "ok"

\* process_enrollment up to the loop: payment checks, then the session basket
PaymentGate(intent) ==
  IF intent = Nil THEN "missing_payment_intent"
  ELSE IF IntentStatus(intent) = "raises" THEN "invalid_payment"
  ELSE IF IntentStatus(intent) # "succeeded" THEN "payment_not_completed"
  ELSE "ok"

process_enrollment(s) ==
  \E u \in Members, intent \in PostedIntents :
    /\ CanStart(s)
    /\ budget' = budget - 1
    /\ LET r0 == [IdleReq EXCEPT !.kind = "process_enrollment", !.actor = u,
                                 !.intent = intent,
                                 \* history: the intent was consumed before this call
                                 !.replay = (<<u, intent>> \in consumed)]
       IN  req' = [req EXCEPT ![s] =
             IF PaymentGate(intent) # "ok" THEN Done(r0, PaymentGate(intent))
             ELSE IF session[u] = <<>> THEN Done(r0, "no_selections")
             ELSE [r0 EXCEPT !.pc = "enroll", !.selections = session[u], !.i = 1]]
    /\ UNCHANGED gate_vars
    /\ UNCHANGED <<Program, Enrollment, BuddyAssignment, enrollment_open, session, consumed>>

\* one iteration of the loop: get_object_or_404(Program, archived=False), then
\* update_or_create.  The Http404 is an Exception: process_enrollment catches
\* it and answers 500, the volunteer view lets it propagate (404).  Rows the
\* earlier iterations wrote stay: nothing wraps the loop in a transaction.
EnrollNext(s, kind, on_missing, after_last) ==
  /\ req[s].kind = kind
  /\ req[s].pc = "enroll"
  /\ LET r == req[s]
         item == r.selections[r.i]
         p == item.program_id
     IN  IF Program[p].archived
         THEN /\ req' = [req EXCEPT ![s] = Done(r, on_missing)]
              /\ UNCHANGED <<Enrollment, Program, consumed>>
         ELSE /\ Enrollment' = UpdateOrCreateEnrollment(Enrollment, r.actor, p, item.rank)
              /\ Program' =
                   IF EnrollmentUnique(Enrollment, r.actor, p)
                   THEN bump_enrollment_on_create(Program,
                          NewEnrollment(Enrollment, r.actor, p, "pending", item.rank, Nil))
                   ELSE Program
              /\ req' = [req EXCEPT ![s] =
                   IF r.i < Len(r.selections)
                   THEN [r EXCEPT !.i = r.i + 1, !.written = r.written \cup {p}]
                   ELSE IF after_last = "done"
                        THEN Done([r EXCEPT !.written = r.written \cup {p}], "ok")
                        ELSE [r EXCEPT !.pc = after_last, !.i = r.i + 1,
                                       !.written = r.written \cup {p}]]
  /\ UNCHANGED gate_vars
  /\ UNCHANGED <<BuddyAssignment, enrollment_open, session, budget, consumed>>

process_enrollment_enroll(s) ==
  EnrollNext(s, "process_enrollment", "error_500", "clear_session")

\* request.session.pop('program_selections'); the session is saved with the response
process_enrollment_clear_session(s) ==
  /\ req[s].kind = "process_enrollment"
  /\ req[s].pc = "clear_session"
  /\ session' = [session EXCEPT ![req[s].actor] = <<>>]
  /\ consumed' = consumed \cup {<<req[s].actor, req[s].intent>>}
  /\ req' = [req EXCEPT ![s] = Done(req[s], "ok")]
  /\ UNCHANGED gate_vars
  /\ UNCHANGED <<Program, Enrollment, BuddyAssignment, enrollment_open, budget>>

\* volunteer_program_selection_view, POST: gates and the pre-validation query
volunteer_program_selection_view(s) ==
  \E u \in Members \cup Volunteers, forms_are_complete \in BOOLEAN,
     sel \in SelectionChoices :
    /\ CanStart(s)
    /\ budget' = budget - 1
    /\ LET r0 == [IdleReq EXCEPT !.kind = "volunteer_selection", !.actor = u]
       IN  req' = [req EXCEPT ![s] =
             IF Role(u) \notin {"volunteer", "manager", "person_centered_manager"}
             THEN Done(r0, "denied")
             ELSE IF ~forms_are_complete THEN Done(r0, "forms_incomplete")
             ELSE IF ~enrollment_open THEN Done(r0, "closed")
             ELSE IF Unarchived(Program, SelectedPrograms(sel)) # SelectedPrograms(sel)
             THEN Done(r0, "no_longer_available")
             ELSE [r0 EXCEPT !.pc = "enroll", !.selections = sel, !.i = 1]]
    /\ settings_rows' =
         IF Role(u) \in {"volunteer", "manager", "person_centered_manager"}
         THEN get_settings(settings_rows) ELSE settings_rows
    /\ UNCHANGED RoleEnrollmentRequirement
    /\ UNCHANGED <<Program, Enrollment, BuddyAssignment, enrollment_open, session, consumed>>

volunteer_program_selection_enroll(s) ==
  EnrollNext(s, "volunteer_selection", "error_404", "done")

\* ------------------------------------------------------------ staff add-user
\* manager_program_add_user_view, POST: the "already enrolled" lookup
manager_program_add_user_view(s) ==
  \E actor \in StaffActors, p \in Programs, u \in Members \cup Volunteers :
    /\ CanStart(s)
    /\ budget' = budget - 1
    /\ LET r0 == [IdleReq EXCEPT !.kind = "add_user", !.actor = actor,
                                 !.pid = p, !.target = u]
       IN  req' = [req EXCEPT ![s] =
             IF Role(actor) # "manager" THEN Done(r0, "denied")
             ELSE IF RowsOf(Enrollment, u, p) # {} THEN Done(r0, "already_enrolled")
             ELSE [r0 EXCEPT !.pc = "create"]]
    /\ UNCHANGED gate_vars
    /\ UNCHANGED <<Program, Enrollment, BuddyAssignment, enrollment_open, session, consumed>>

\* an INSERT that no unique constraint guards
CreateEnrollmentUnconstrained(table, row) == table \cup {row}

\* Enrollment.objects.create(...): INSERT under the unique constraint; the
\* IntegrityError of a duplicate is caught by the handler's except Exception
CreateEnrollment(table, row) ==
  IF EnrollmentUnique(table, row.user, row.program) THEN table \cup {row} ELSE table

manager_program_add_user_create(s) ==
  /\ req[s].kind = "add_user"
  /\ req[s].pc = "create"
  /\ LET r == req[s]
         row == NewEnrollment(Enrollment, r.target, r.pid, "pending", 0, r.actor)
     IN  /\ Enrollment' = CreateEnrollment(Enrollment, row)
         /\ Program' = IF Enrollment' # Enrollment
                       THEN bump_enrollment_on_create(Program, row) ELSE Program
         /\ req' = [req EXCEPT ![s] =
                      Done(r, IF Enrollment' # Enrollment THEN "ok" ELSE "error")]
  /\ UNCHANGED gate_vars
  /\ UNCHANGED <<BuddyAssignment, enrollment_open, session, budget, consumed>>

\* ------------------------------------------------------------- program edit
Capacities == {1, 2}

\* manager_program_edit_view, POST: role gate and get_object_or_404(Program)
manager_program_edit_view(s) ==
  \E actor \in StaffActors, p \in Programs :
    /\ CanStart(s)
    /\ budget' = budget - 1
    /\ LET r0 == [IdleReq EXCEPT !.kind = "program_edit", !.actor = actor, !.pid = p]
       IN  req' = [req EXCEPT ![s] =
             IF Role(actor) # "manager" THEN Done(r0, "denied")
             ELSE [r0 EXCEPT !.pc = "save", !.program = Program[p]]]
    /\ UNCHANGED gate_vars
    /\ UNCHANGED <<Program, Enrollment, BuddyAssignment, enrollment_open, session, consumed>>

\* the posted fields are set on the fetched row and program.save() writes
\* every column, the fetched enrolled included
manager_program_edit_save(s) ==
  /\ req[s].kind = "program_edit"
  /\ req[s].pc = "save"
  /\ \E capacity \in Capacities, archived \in BOOLEAN :
       Program' = [Program EXCEPT ![req[s].pid] =
                     [req[s].program EXCEPT !.capacity = capacity,
                                            !.archived = archived]]
  /\ req' = [req EXCEPT ![s] = Done(req[s], "ok")]
  /\ UNCHANGED gate_vars
  /\ UNCHANGED <<Enrollment, BuddyAssignment, enrollment_open, session, budget, consumed>>

\* ------------------------------------------------------ enrollment settings
\* toggle_enrollment_status: settings.enrollment_open = not settings.enrollment_open
toggle_enrollment_status ==
  \E actor \in StaffActors :
    /\ budget > 0
    /\ budget' = budget - 1
    /\ enrollment_open' = IF Role(actor) = "manager" THEN ~enrollment_open
                          ELSE enrollment_open
    /\ settings_rows' = IF Role(actor) = "manager" THEN get_settings(settings_rows)
                        ELSE settings_rows
    /\ UNCHANGED RoleEnrollmentRequirement
    /\ UNCHANGED <<Program, Enrollment, BuddyAssignment, session, req, consumed>>

\* --------------------------------------------------------- buddy assignments
BuddyRows(table, p, m) == {b \in table : b.program = p /\ b.member_user = m}

MaxBuddyId(table) ==
  IF table = {} THEN 0
  ELSE CHOOSE n \in {b.id : b \in table} : \A b \in table : b.id <= n

\* a plain create where the code has update_or_create
CreateBuddyAlways(table, p, m, v) ==
  table \cup {[id |-> MaxBuddyId(table) + 1, program |-> p,
               member_user |-> m, volunteer_user |-> v]}

\* BuddyAssignment.objects.update_or_create(program, member_user,
\* defaults={'volunteer_user': volunteer}) under unique_together (program, member_user)
UpdateOrCreateBuddy(table, p, m, v) ==
  IF BuddyRows(table, p, m) = {}
  THEN table \cup {[id |-> MaxBuddyId(table) + 1, program |-> p,
                    member_user |-> m, volunteer_user |-> v]}
  ELSE (table \ BuddyRows(table, p, m)) \cup
         {[b EXCEPT !.volunteer_user = v] : b \in BuddyRows(table, p, m)}

\* a delete whose filter names the program only
DeleteBuddyByProgram(table, p, m) == {b \in table : b.program # p}

\* BuddyAssignment.objects.filter(program, member_user).delete()
DeleteBuddy(table, p, m) == table \ BuddyRows(table, p, m)

PostedVolunteers == {""} \cup Volunteers

\* ajax_update_buddy_assignment up to the write: role gate, the enrollment,
\* the member-role check, the unassign branch, the approved-volunteer check
BuddyAssignmentStart(s, actor, eid, v) ==
  /\ CanStart(s)
  /\ budget' = budget - 1
  /\ LET r0 == [IdleReq EXCEPT !.kind = "ajax_buddy", !.actor = actor]
         found == RowsById(Enrollment, eid)
         e == CHOOSE x \in found : TRUE
         unassign == /\ Role(actor) = "manager" /\ found # {}
                     /\ Role(e.user) = "member" /\ v = ""
     IN  /\ req' = [req EXCEPT ![s] =
               IF Role(actor) # "manager" THEN Done(r0, "denied")
               ELSE IF found = {} THEN Done(r0, "not_found")
               ELSE IF Role(e.user) # "member" THEN Done(r0, "not_a_member")
               ELSE IF v = ""
               THEN [Done(r0, "removed") EXCEPT !.pid = e.program, !.target = e.user]
               ELSE IF {x \in RowsOf(Enrollment, v, e.program) :
                          x.status = "approved"} = {}
               THEN Done([r0 EXCEPT !.volunteer = v], "volunteer_not_enrolled")
               ELSE [r0 EXCEPT !.pc = "assign", !.pid = e.program,
                               !.target = e.user, !.volunteer = v]]
         /\ BuddyAssignment' = IF unassign
                               THEN DeleteBuddy(BuddyAssignment, e.program, e.user)
                               ELSE BuddyAssignment
  /\ UNCHANGED gate_vars
  /\ UNCHANGED <<Program, Enrollment, enrollment_open, session, consumed>>

ajax_update_buddy_assignment(s) ==
  \E actor \in StaffActors, eid \in 0 .. MaxId(Enrollment), v \in PostedVolunteers :
    BuddyAssignmentStart(s, actor, eid, v)

ajax_update_buddy_assign(s) ==
  /\ req[s].kind = "ajax_buddy"
  /\ req[s].pc = "assign"
  /\ BuddyAssignment' =
       UpdateOrCreateBuddy(BuddyAssignment, req[s].pid, req[s].target, req[s].volunteer)
  /\ req' = [req EXCEPT ![s] = Done(req[s], "ok")]
  /\ UNCHANGED gate_vars
  /\ UNCHANGED <<Program, Enrollment, enrollment_open, session, budget, consumed>>

\* all_members_view, POST action assign_buddy: the enrollment gives member and
\* program; an empty volunteer_id deletes, any other one is written
AssignBuddyActionPageGate(actor, eid, v) ==
  /\ budget > 0
  /\ budget' = budget - 1
  /\ LET found == RowsById(Enrollment, eid)
         e == CHOOSE x \in found : TRUE
     IN  BuddyAssignment' =
           IF Role(actor) \notin {"manager", "person_centered_manager"} \/ found = {}
           THEN BuddyAssignment
           ELSE IF v = "" THEN DeleteBuddy(BuddyAssignment, e.program, e.user)
           ELSE UpdateOrCreateBuddy(BuddyAssignment, e.program, e.user, v)
  /\ UNCHANGED gate_vars
  /\ UNCHANGED <<Program, Enrollment, enrollment_open, session, req, consumed>>

AssignBuddyAction(actor, eid, v) ==
  /\ budget > 0
  /\ budget' = budget - 1
  /\ LET found == RowsById(Enrollment, eid)
         e == CHOOSE x \in found : TRUE
     IN  BuddyAssignment' =
           IF Role(actor) # "manager" \/ found = {} THEN BuddyAssignment
           ELSE IF v = "" THEN DeleteBuddy(BuddyAssignment, e.program, e.user)
           ELSE UpdateOrCreateBuddy(BuddyAssignment, e.program, e.user, v)
  /\ UNCHANGED gate_vars
  /\ UNCHANGED <<Program, Enrollment, enrollment_open, session, req, consumed>>

all_members_assign_buddy ==
  \E actor \in StaffActors, eid \in 0 .. MaxId(Enrollment), v \in PostedVolunteers :
    AssignBuddyAction(actor, eid, v)

\* an INSERT that no unique constraint guards
InsertBuddyUnconstrained(table, p, m, v) ==
  table \cup {[id |-> MaxBuddyId(table) + 1, program |-> p,
               member_user |-> m, volunteer_user |-> v]}

\* the INSERT of update_or_create under unique_together (program, member_user):
\* refused (IntegrityError) when the key already has a row
InsertBuddy(table, p, m, v) ==
  IF BuddyRows(table, p, m) = {}
  THEN table \cup {[id |-> MaxBuddyId(table) + 1, program |-> p,
                    member_user |-> m, volunteer_user |-> v]}
  ELSE table

\* ajax_update_buddy_assignment posted with a volunteer
ajax_assign_volunteer(s) ==
  \E actor \in StaffActors, eid \in 0 .. MaxId(Enrollment), v \in Volunteers :
    BuddyAssignmentStart(s, actor, eid, v)

\* update_or_create statement by statement.  The lookup by key:
update_or_create_get(s) ==
  /\ req[s].kind = "ajax_buddy"
  /\ req[s].pc = "assign"
  /\ req' = [req EXCEPT ![s].pc =
               IF BuddyRows(BuddyAssignment, req[s].pid, req[s].target) = {}
               THEN "create" ELSE "update"]
  /\ UNCHANGED gate_vars
  /\ UNCHANGED <<Program, Enrollment, BuddyAssignment, enrollment_open, session,
                 budget, consumed>>

\* nothing was found: INSERT; an IntegrityError sends it to a second lookup
update_or_create_insert(s) ==
  /\ req[s].kind = "ajax_buddy"
  /\ req[s].pc = "create"
  /\ BuddyAssignment' =
       InsertBuddy(BuddyAssignment, req[s].pid, req[s].target, req[s].volunteer)
  /\ req' = [req EXCEPT ![s] =
               IF BuddyAssignment' # BuddyAssignment THEN Done(req[s], "ok")
               ELSE [req[s] EXCEPT !.pc = "get_again"]]
  /\ UNCHANGED gate_vars
  /\ UNCHANGED <<Program, Enrollment, enrollment_open, session, budget, consumed>>

\* the lookup after the IntegrityError; a row that is gone again re-raises it
\* and the handler's except Exception answers 500
update_or_create_get_again(s) ==
  /\ req[s].kind = "ajax_buddy"
  /\ req[s].pc = "get_again"
  /\ req' = [req EXCEPT ![s] =
               IF BuddyRows(BuddyAssignment, req[s].pid, req[s].target) = {}
               THEN Done(req[s], "error")
               ELSE [req[s] EXCEPT !.pc = "update"]]
  /\ UNCHANGED gate_vars
  /\ UNCHANGED <<Program, Enrollment, BuddyAssignment, enrollment_open, session,
                 budget, consumed>>

\* a row was found: volunteer_user is set and the row is saved
update_or_create_save(s) ==
  /\ req[s].kind = "ajax_buddy"
  /\ req[s].pc = "update"
  /\ BuddyAssignment' =
       UpdateOrCreateBuddy(BuddyAssignment, req[s].pid, req[s].target, req[s].volunteer)
  /\ req' = [req EXCEPT ![s] = Done(req[s], "ok")]
  /\ UNCHANGED gate_vars
  /\ UNCHANGED <<Program, Enrollment, enrollment_open, session, budget, consumed>>

\* ------------------------------------------------------------ specification
\* a program as staff created it: capacity 2, nobody enrolled
NewProgram == [capacity |-> 2, enrolled |-> 0, archived |-> FALSE]

Init ==
  /\ Program = [p \in Programs |-> NewProgram]
  /\ Enrollment = {}
  /\ BuddyAssignment = {}
  /\ enrollment_open = TRUE
  /\ settings_rows = {SettingsPk}
  /\ RoleEnrollmentRequirement = {}
  /\ session = [u \in Users |-> <<>>]
  /\ req = [s \in Slots |-> IdleReq]
  /\ consumed = {}
  /\ budget = MaxRequests

Next ==
  \/ \E s \in Slots : ajax_update_enrollment_status(s)
  \/ \E s \in Slots : all_members_update_enrollment_status(s)
  \/ \E s \in Slots : all_volunteers_update_enrollment_status(s)
  \/ \E s \in Slots : UpdateStatusSaveEnrollment(s)
  \/ \E s \in Slots : UpdateStatusLoadProgram(s)
  \/ \E s \in Slots : UpdateStatusSaveProgram(s)
  \/ program_selection_view
  \/ \E s \in Slots : process_enrollment(s)
  \/ \E s \in Slots : process_enrollment_enroll(s)
  \/ \E s \in Slots : process_enrollment_clear_session(s)
  \/ \E s \in Slots : volunteer_program_selection_view(s)
  \/ \E s \in Slots : volunteer_program_selection_enroll(s)
  \/ \E s \in Slots : manager_program_add_user_view(s)
  \/ \E s \in Slots : manager_program_add_user_create(s)
  \/ \E s \in Slots : manager_program_edit_view(s)
  \/ \E s \in Slots : manager_program_edit_save(s)
  \/ toggle_enrollment_status
  \/ \E s \in Slots : ajax_update_buddy_assignment(s)
  \/ \E s \in Slots : ajax_update_buddy_assign(s)
  \/ all_members_assign_buddy

Spec == Init /\ [][Next]_vars

\* -------------------------------------------- staff review of a full roster
\* Three users were added to program A by staff and wait for review.
MaxStatusRequests == 3

PendingRow(id, u, p) ==
  [enrollment_id |-> id, user |-> u, program |-> p, status |-> "pending",
   preference_order |-> 0, assigned_by |-> "mgr"]

InitStatus ==
  /\ Program = [p \in Programs |-> NewProgram]
  /\ Enrollment = {PendingRow(1, "m1", "A"), PendingRow(2, "v1", "A"),
                   PendingRow(3, "v2", "A")}
  /\ BuddyAssignment = {}
  /\ enrollment_open = TRUE
  /\ settings_rows = {SettingsPk}
  /\ RoleEnrollmentRequirement = {}
  /\ session = [u \in Users |-> <<>>]
  /\ req = [s \in Slots |-> IdleReq]
  /\ consumed = {}
  /\ budget = MaxStatusRequests

NextStatus ==
  \/ \E s \in Slots : ajax_update_enrollment_status(s)
  \/ \E s \in Slots : all_members_update_enrollment_status(s)
  \/ \E s \in Slots : all_volunteers_update_enrollment_status(s)
  \/ \E s \in Slots : UpdateStatusSaveEnrollment(s)
  \/ \E s \in Slots : UpdateStatusLoadProgram(s)
  \/ \E s \in Slots : UpdateStatusSaveProgram(s)

SpecStatus == InitStatus /\ [][NextStatus]_vars

\* ------------------------------------------------- checkout and confirmation
\* The member may already have posted a basket to program_selection_view.
MaxCheckoutRequests == 3

InitCheckout ==
  /\ Program = [p \in Programs |-> NewProgram]
  /\ Enrollment = {}
  /\ BuddyAssignment = {}
  /\ enrollment_open = TRUE
  /\ settings_rows = {SettingsPk}
  /\ RoleEnrollmentRequirement = {}
  /\ session \in {[u \in Users |-> <<>>],
                  [u \in Users |-> IF u = "m1"
                                   THEN <<Item("A", 1), Item("B", 2)>> ELSE <<>>]}
  /\ req = [s \in Slots |-> IdleReq]
  /\ consumed = {}
  /\ budget = MaxCheckoutRequests

NextCheckout ==
  \/ program_selection_view
  \/ \E s \in Slots : process_enrollment(s)
  \/ \E s \in Slots : process_enrollment_enroll(s)
  \/ \E s \in Slots : process_enrollment_clear_session(s)
  \/ \E s \in Slots : volunteer_program_selection_view(s)
  \/ \E s \in Slots : volunteer_program_selection_enroll(s)
  \/ \E s \in Slots : manager_program_add_user_view(s)
  \/ \E s \in Slots : manager_program_add_user_create(s)
  \/ \E s \in Slots : manager_program_edit_view(s)
  \/ \E s \in Slots : manager_program_edit_save(s)
  \/ \E s \in Slots : ajax_update_enrollment_status(s)
  \/ \E s \in Slots : UpdateStatusSaveEnrollment(s)
  \/ \E s \in Slots : UpdateStatusLoadProgram(s)
  \/ \E s \in Slots : UpdateStatusSaveProgram(s)

SpecCheckout == InitCheckout /\ [][NextCheckout]_vars

\* ------------------------------------------------------- creation of rows
\* Only the handlers that create Enrollment rows, from the same start.
MaxEnrollRequests == 2

InitEnroll ==
  /\ Program = [p \in Programs |-> NewProgram]
  /\ Enrollment = {}
  /\ BuddyAssignment = {}
  /\ enrollment_open = TRUE
  /\ settings_rows = {SettingsPk}
  /\ RoleEnrollmentRequirement = {}
  /\ session \in {[u \in Users |-> <<>>],
                  [u \in Users |-> IF u = "m1"
                                   THEN <<Item("A", 1), Item("B", 2)>> ELSE <<>>]}
  /\ req = [s \in Slots |-> IdleReq]
  /\ consumed = {}
  /\ budget = MaxEnrollRequests

NextEnroll ==
  \/ program_selection_view
  \/ \E s \in Slots : process_enrollment(s)
  \/ \E s \in Slots : process_enrollment_enroll(s)
  \/ \E s \in Slots : process_enrollment_clear_session(s)
  \/ \E s \in Slots : volunteer_program_selection_view(s)
  \/ \E s \in Slots : volunteer_program_selection_enroll(s)
  \/ \E s \in Slots : manager_program_add_user_view(s)
  \/ \E s \in Slots : manager_program_add_user_create(s)

SpecEnroll == InitEnroll /\ [][NextEnroll]_vars

\* ------------------------------------------------------------ buddy pairing
\* Program A after review: the member and both volunteers are approved.
MaxBuddyRequests == 3

ApprovedRow(id, u, p) == [PendingRow(id, u, p) EXCEPT !.status = "approved"]

InitBuddy ==
  /\ Program = [p \in Programs |->
                  IF p = "A" THEN [NewProgram EXCEPT !.enrolled = 3] ELSE NewProgram]
  /\ Enrollment = {ApprovedRow(1, "m1", "A"), ApprovedRow(2, "v1", "A"),
                   ApprovedRow(3, "v2", "A")}
  /\ BuddyAssignment = {}
  /\ enrollment_open = TRUE
  /\ settings_rows = {SettingsPk}
  /\ RoleEnrollmentRequirement = {}
  /\ session = [u \in Users |-> <<>>]
  /\ req = [s \in Slots |-> IdleReq]
  /\ consumed = {}
  /\ budget = MaxBuddyRequests

NextBuddy ==
  \/ \E s \in Slots : ajax_update_buddy_assignment(s)
  \/ \E s \in Slots : ajax_update_buddy_assign(s)
  \/ all_members_assign_buddy

SpecBuddy == InitBuddy /\ [][NextBuddy]_vars

\* concurrent assignments: the same start, the write taken apart
MaxRaceRequests == 3

InitRace ==
  /\ Program = [p \in Programs |->
                  IF p = "A" THEN [NewProgram EXCEPT !.enrolled = 3] ELSE NewProgram]
  /\ Enrollment = {ApprovedRow(1, "m1", "A"), ApprovedRow(2, "v1", "A"),
                   ApprovedRow(3, "v2", "A")}
  /\ BuddyAssignment = {}
  /\ enrollment_open = TRUE
  /\ settings_rows = {SettingsPk}
  /\ RoleEnrollmentRequirement = {}
  /\ session = [u \in Users |-> <<>>]
  /\ req = [s \in Slots |-> IdleReq]
  /\ consumed = {}
  /\ budget = MaxRaceRequests

NextRace ==
  \/ \E s \in Slots : ajax_assign_volunteer(s)
  \/ \E s \in Slots : update_or_create_get(s)
  \/ \E s \in Slots : update_or_create_insert(s)
  \/ \E s \in Slots : update_or_create_get_again(s)
  \/ \E s \in Slots : update_or_create_save(s)

SpecRace == InitRace /\ [][NextRace]_vars

\* ---------------------------------------------------------- available spots
\* capacity of a Program instance built with capacity=None
\* (int(capacity) if capacity else None, in the create and edit views)
NoCapacity == 0 - 1

\* Program.available_spots: max(self.capacity - self.enrolled, 0); the
\* subtraction raises TypeError when capacity is None
available_spots(program) ==
  IF program.capacity = NoCapacity
  THEN [raises |-> "TypeError", value |-> 0]
  ELSE [raises |-> Nil, value |-> Max0(program.capacity - program.enrolled)]

\* a request that evaluated available_spots on a Program instance
SpotsResponse(r0, program) ==
  [Done(r0, IF available_spots(program).raises = Nil
            THEN "ok" ELSE available_spots(program).raises)
     EXCEPT !.program = program, !.spots = available_spots(program).value]

\* program_detail_view, AJAX: the fetched row and its available_spots
program_detail_view(s) ==
  \E u \in Users, p \in Programs :
    /\ CanStart(s)
    /\ budget' = budget - 1
    /\ req' = [req EXCEPT ![s] =
         SpotsResponse([IdleReq EXCEPT !.kind = "program_detail", !.actor = u],
                       Program[p])]
    /\ UNCHANGED gate_vars
    /\ UNCHANGED <<Program, Enrollment, BuddyAssignment, enrollment_open, session, consumed>>

\* available_spots read on a Program instance that is not a stored row: the
\* views build one with capacity None when the posted capacity is blank
available_spots_unsaved(s) ==
  \E capacity \in {NoCapacity} \cup Capacities, enrolled \in 0 .. MaxEnrolled :
    /\ CanStart(s)
    /\ budget' = budget - 1
    /\ req' = [req EXCEPT ![s] =
         SpotsResponse([IdleReq EXCEPT !.kind = "available_spots"],
                       [capacity |-> capacity, enrolled |-> enrolled,
                        archived |-> FALSE])]
    /\ UNCHANGED gate_vars
    /\ UNCHANGED <<Program, Enrollment, BuddyAssignment, enrollment_open, session, consumed>>

\* Stored programs of every capacity and occupancy, over capacity included.
MaxSpotsRequests == 2

InitSpots ==
  /\ Program \in [Programs -> [capacity : Capacities, enrolled : 0 .. MaxEnrolled,
                                archived : {FALSE}]]
  /\ Enrollment = {}
  /\ BuddyAssignment = {}
  /\ enrollment_open = TRUE
  /\ settings_rows = {SettingsPk}
  /\ RoleEnrollmentRequirement = {}
  /\ session = [u \in Users |-> <<>>]
  /\ req = [s \in Slots |-> IdleReq]
  /\ consumed = {}
  /\ budget = MaxSpotsRequests

NextSpots ==
  \/ \E s \in Slots : program_detail_view(s)
  \/ \E s \in Slots : available_spots_unsaved(s)

SpecSpots == InitSpots /\ [][NextSpots]_vars

\* ------------------------------------------------ enrollment entry points
\* User.forms_are_complete: profile_is_complete and survey_is_complete
forms_are_complete(profile_is_complete, survey_is_complete) ==
  profile_is_complete /\ survey_is_complete

GateEntries == {"program_catalog", "checkout"}

\* the checks every entry point makes, in the order the views make them
EntryGate(forms_complete, open) ==
  IF ~forms_complete THEN "forms_incomplete"
  ELSE IF ~open THEN "closed"
  ELSE "ok"

\* program_catalog_view: settings fetched, forms checked, toggle checked
program_catalog_view(s) ==
  \E u \in Users, profile_is_complete \in BOOLEAN, survey_is_complete \in BOOLEAN :
    /\ CanStart(s)
    /\ budget' = budget - 1
    /\ settings_rows' = get_settings(settings_rows)
    /\ LET r0 == [IdleReq EXCEPT !.kind = "program_catalog"]
           answer == EntryGate(forms_are_complete(profile_is_complete,
                                                  survey_is_complete),
                               enrollment_open)
       IN  req' = [req EXCEPT ![s] = [Done(r0, answer) EXCEPT !.actor = u]]
    /\ UNCHANGED RoleEnrollmentRequirement
    /\ UNCHANGED <<Program, Enrollment, BuddyAssignment, enrollment_open, session,
                   consumed>>

\* checkout_view: the same two checks, then the basket must not be empty
checkout_view(s) ==
  \E u \in Users, profile_is_complete \in BOOLEAN, survey_is_complete \in BOOLEAN :
    /\ CanStart(s)
    /\ budget' = budget - 1
    /\ settings_rows' = get_settings(settings_rows)
    /\ LET r0 == [IdleReq EXCEPT !.kind = "checkout"]
           gate == EntryGate(forms_are_complete(profile_is_complete,
                                                survey_is_complete),
                             enrollment_open)
           answer == IF gate # "ok" THEN gate
                     ELSE IF session[u] = <<>> THEN "no_selection"
                     ELSE "ok"
       IN  req' = [req EXCEPT ![s] = [Done(r0, answer) EXCEPT !.actor = u]]
    /\ UNCHANGED RoleEnrollmentRequirement
    /\ UNCHANGED <<Program, Enrollment, BuddyAssignment, enrollment_open, session,
                   consumed>>

\* roles a requirement is posted for, and the surveys it may name
PostedRoles == {"member", "volunteer"}
Surveys == {"discovery"}

\* create_role_requirement: refused when the role already has a requirement
create_role_requirement ==
  \E actor \in StaffActors, role \in PostedRoles, require_profile \in BOOLEAN,
     is_active \in BOOLEAN, survey_ids \in SUBSET Surveys :
    /\ budget > 0
    /\ budget' = budget - 1
    /\ RoleEnrollmentRequirement' =
         IF \/ Role(actor) # "manager"
            \/ \E r \in RoleEnrollmentRequirement : r.role = role
         THEN RoleEnrollmentRequirement
         ELSE RoleEnrollmentRequirement \cup
                {[role |-> role, require_profile_completion |-> require_profile,
                  is_active |-> is_active, required_surveys |-> survey_ids]}
    /\ UNCHANGED settings_rows
    /\ UNCHANGED <<Program, Enrollment, BuddyAssignment, enrollment_open, session,
                   req, consumed>>

\* update_role_requirement: overwrite the three settings of an existing row
update_role_requirement ==
  \E actor \in StaffActors, role \in PostedRoles, require_profile \in BOOLEAN,
     is_active \in BOOLEAN, survey_ids \in SUBSET Surveys :
    /\ budget > 0
    /\ budget' = budget - 1
    /\ RoleEnrollmentRequirement' =
         IF Role(actor) # "manager" THEN RoleEnrollmentRequirement
         ELSE {IF r.role = role
               THEN [r EXCEPT !.require_profile_completion = require_profile,
                              !.is_active = is_active,
                              !.required_surveys = survey_ids]
               ELSE r : r \in RoleEnrollmentRequirement}
    /\ UNCHANGED settings_rows
    /\ UNCHANGED <<Program, Enrollment, BuddyAssignment, enrollment_open, session,
                   req, consumed>>

MaxGateRequests == 3

InitGate ==
  /\ Program = [p \in Programs |-> NewProgram]
  /\ Enrollment = {}
  /\ BuddyAssignment = {}
  /\ enrollment_open = TRUE
  /\ settings_rows = {SettingsPk}
  /\ RoleEnrollmentRequirement = {}
  /\ session = [u \in Users |-> <<>>]
  /\ req = [s \in Slots |-> IdleReq]
  /\ consumed = {}
  /\ budget = MaxGateRequests

NextGate ==
  \/ toggle_enrollment_status
  \/ create_role_requirement
  \/ update_role_requirement
  \/ program_selection_view
  \/ \E s \in Slots : program_catalog_view(s)
  \/ \E s \in Slots : checkout_view(s)

SpecGate == InitGate /\ [][NextGate]_vars

\* --------------------------------------------------------- admin site rows
\* EnrollmentAdmin, add form: a row of any status; the form's unique check
\* refuses a second row for the pair, save() fires post_save with created
EnrollmentAdmin_add(s) ==
  \E u \in Members \cup Volunteers, p \in Programs, st \in EnrollmentStatus :
    /\ CanStart(s)
    /\ budget' = budget - 1
    /\ LET r0 == [IdleReq EXCEPT !.kind = "admin_add"]
           row == NewEnrollment(Enrollment, u, p, st, 0, Nil)
       IN  IF EnrollmentUnique(Enrollment, u, p)
           THEN /\ Enrollment' = Enrollment \cup {row}
                /\ Program' = bump_enrollment_on_create(Program, row)
                /\ req' = [req EXCEPT ![s] =
                             [Done(r0, "ok") EXCEPT !.enrollment = row]]
           ELSE /\ req' = [req EXCEPT ![s] = Done(r0, "error")]
                /\ UNCHANGED <<Enrollment, Program>>
    /\ UNCHANGED gate_vars
    /\ UNCHANGED <<BuddyAssignment, enrollment_open, session, consumed>>

\* EnrollmentAdmin, change form: save() of an existing row fires post_save
\* without created, so the receiver returns at once
EnrollmentAdmin_change(s) ==
  \E e \in Enrollment, st \in EnrollmentStatus :
    /\ CanStart(s)
    /\ budget' = budget - 1
    /\ LET r0 == [IdleReq EXCEPT !.kind = "admin_change"]
           row == [e EXCEPT !.status = st]
       IN  /\ Enrollment' = SaveEnrollment(Enrollment, row)
           /\ req' = [req EXCEPT ![s] = [Done(r0, "ok") EXCEPT !.enrollment = row]]
    /\ UNCHANGED gate_vars
    /\ UNCHANGED <<Program, BuddyAssignment, enrollment_open, session, consumed>>

MaxAdminRequests == 2

InitAdmin ==
  /\ Program = [p \in Programs |-> NewProgram]
  /\ Enrollment = {}
  /\ BuddyAssignment = {}
  /\ enrollment_open = TRUE
  /\ settings_rows = {SettingsPk}
  /\ RoleEnrollmentRequirement = {}
  /\ session = [u \in Users |-> <<>>]
  /\ req = [s \in Slots |-> IdleReq]
  /\ consumed = {}
  /\ budget = MaxAdminRequests

NextAdmin ==
  \/ \E s \in Slots : EnrollmentAdmin_add(s)
  \/ \E s \in Slots : EnrollmentAdmin_change(s)
  \/ \E s \in Slots : manager_program_add_user_view(s)
  \/ \E s \in Slots : manager_program_add_user_create(s)

SpecAdmin == InitAdmin /\ [][NextAdmin]_vars

\* EnrollmentAdmin, delete: the row is removed and post_delete fires
EnrollmentAdmin_delete(s) ==
  \E e \in Enrollment :
    /\ CanStart(s)
    /\ budget' = budget - 1
    /\ Enrollment' = Enrollment \ {e}
    /\ Program' = lower_enrollment_on_delete(Program, e)
    /\ req' = [req EXCEPT ![s] =
                 [Done([IdleReq EXCEPT !.kind = "admin_delete"], "ok")
                    EXCEPT !.enrollment = e]]
    /\ UNCHANGED gate_vars
    /\ UNCHANGED <<BuddyAssignment, enrollment_open, session, consumed>>

\* Program A with its approved member and two volunteers who wait for review;
\* staff review rows and the admin site deletes rows.
MaxDeletionRequests == 3

InitDeletion ==
  /\ Program = [p \in Programs |->
                  IF p = "A" THEN [NewProgram EXCEPT !.enrolled = 1] ELSE NewProgram]
  /\ Enrollment = {ApprovedRow(1, "m1", "A"), PendingRow(2, "v1", "A"),
                   PendingRow(3, "v2", "A")}
  /\ BuddyAssignment = {}
  /\ enrollment_open = TRUE
  /\ settings_rows = {SettingsPk}
  /\ RoleEnrollmentRequirement = {}
  /\ session = [u \in Users |-> <<>>]
  /\ req = [s \in Slots |-> IdleReq]
  /\ consumed = {}
  /\ budget = MaxDeletionRequests

NextDeletion ==
  \/ \E s \in Slots : EnrollmentAdmin_delete(s)
  \/ \E s \in Slots : ajax_update_enrollment_status(s)
  \/ \E s \in Slots : UpdateStatusSaveEnrollment(s)
  \/ \E s \in Slots : UpdateStatusLoadProgram(s)
  \/ \E s \in Slots : UpdateStatusSaveProgram(s)

SpecDeletion == InitDeletion /\ [][NextDeletion]_vars

\* ------------------------------------------------- the settings singleton
\* EnrollmentSettings.get_settings() statement by statement: get_or_create of
\* the row with the fixed primary key.  SELECT first.
get_settings_select(s) ==
  /\ CanStart(s)
  /\ budget' = budget - 1
  /\ LET r0 == [IdleReq EXCEPT !.kind = "get_settings"]
     IN  req' = [req EXCEPT ![s] =
           IF SettingsPk \in settings_rows
           THEN [Done(r0, "fetched") EXCEPT !.settings = SettingsPk]
           ELSE [r0 EXCEPT !.pc = "create"]]
  /\ UNCHANGED gate_vars
  /\ UNCHANGED <<Program, Enrollment, BuddyAssignment, enrollment_open, session,
                 consumed>>

\* the INSERT of a fetch that found nothing: the primary key refuses a second
\* row, and get_or_create answers that IntegrityError with another SELECT
get_settings_insert(s) ==
  /\ req[s].kind = "get_settings"
  /\ req[s].pc = "create"
  /\ IF SettingsPk \in settings_rows
     THEN /\ req' = [req EXCEPT ![s].pc = "select_again"]
          /\ UNCHANGED settings_rows
     ELSE /\ settings_rows' = settings_rows \cup {SettingsPk}
          /\ req' = [req EXCEPT ![s] =
                       [Done(req[s], "created") EXCEPT !.settings = SettingsPk]]
  /\ UNCHANGED RoleEnrollmentRequirement
  /\ UNCHANGED <<Program, Enrollment, BuddyAssignment, enrollment_open, session,
                 budget, consumed>>

get_settings_select_again(s) ==
  /\ req[s].kind = "get_settings"
  /\ req[s].pc = "select_again"
  /\ req' = [req EXCEPT ![s] =
               IF SettingsPk \in settings_rows
               THEN [Done(req[s], "fetched_after_conflict")
                       EXCEPT !.settings = SettingsPk]
               ELSE Done(req[s], "IntegrityError")]
  /\ UNCHANGED gate_vars
  /\ UNCHANGED <<Program, Enrollment, BuddyAssignment, enrollment_open, session,
                 budget, consumed>>

\* a permission that lets the admin site delete the record
has_delete_permission_granted == TRUE

\* EnrollmentSettingsAdmin.has_delete_permission
has_delete_permission == FALSE

\* EnrollmentSettingsAdmin.has_add_permission
has_add_permission(rows) == rows = {}

\* admin site, add form: offered only while no record exists; the saved
\* record takes the fixed primary key
EnrollmentSettingsAdmin_add ==
  /\ budget > 0
  /\ budget' = budget - 1
  /\ settings_rows' = IF has_add_permission(settings_rows)
                      THEN settings_rows \cup {SettingsPk}
                      ELSE settings_rows
  /\ UNCHANGED RoleEnrollmentRequirement
  /\ UNCHANGED <<Program, Enrollment, BuddyAssignment, enrollment_open, session,
                 req, consumed>>

\* admin site, delete: the rows are removed only with the delete permission
EnrollmentSettingsAdmin_delete ==
  /\ budget > 0
  /\ budget' = budget - 1
  /\ settings_rows' = IF has_delete_permission THEN {} ELSE settings_rows
  /\ UNCHANGED RoleEnrollmentRequirement
  /\ UNCHANGED <<Program, Enrollment, BuddyAssignment, enrollment_open, session,
                 req, consumed>>

MaxSettingsRequests == 4

\* a fresh database: no settings record yet
InitSettings ==
  /\ Program = [p \in Programs |-> NewProgram]
  /\ Enrollment = {}
  /\ BuddyAssignment = {}
  /\ enrollment_open = TRUE
  /\ settings_rows = {}
  /\ RoleEnrollmentRequirement = {}
  /\ session = [u \in Users |-> <<>>]
  /\ req = [s \in Slots |-> IdleReq]
  /\ consumed = {}
  /\ budget = MaxSettingsRequests

NextSettings ==
  \/ \E s \in Slots : get_settings_select(s)
  \/ \E s \in Slots : get_settings_insert(s)
  \/ \E s \in Slots : get_settings_select_again(s)
  \/ toggle_enrollment_status
  \/ EnrollmentSettingsAdmin_add
  \/ EnrollmentSettingsAdmin_delete

SpecSettings == InitSettings /\ [][NextSettings]_vars

\* ----------------------------------------------------- review at capacity
\* Program A takes one participant and has one: the member is approved, the
\* two volunteers wait for review.
MaxCapacityRequests == 2

InitCapacity ==
  /\ Program = [p \in Programs |->
                  IF p = "A" THEN [NewProgram EXCEPT !.capacity = 1, !.enrolled = 1]
                  ELSE NewProgram]
  /\ Enrollment = {ApprovedRow(1, "m1", "A"), PendingRow(2, "v1", "A"),
                   PendingRow(3, "v2", "A")}
  /\ BuddyAssignment = {}
  /\ enrollment_open = TRUE
  /\ settings_rows = {SettingsPk}
  /\ RoleEnrollmentRequirement = {}
  /\ session = [u \in Users |-> <<>>]
  /\ req = [s \in Slots |-> IdleReq]
  /\ consumed = {}
  /\ budget = MaxCapacityRequests

NextCapacity ==
  \/ \E s \in Slots : ajax_update_enrollment_status(s)
  \/ \E s \in Slots : UpdateStatusSaveEnrollment(s)
  \/ \E s \in Slots : UpdateStatusLoadProgram(s)
  \/ \E s \in Slots : UpdateStatusSaveProgram(s)

SpecCapacity == InitCapacity /\ [][NextCapacity]_vars

\* ------------------------------------------------- pairing during review
\* Programs A and B while staff still review: the member and v1 are approved
\* in both, v2 waits in A.  Staff pair buddies and change statuses.
MaxPairingRequests == 3

InitPairing ==
  /\ Program = [p \in Programs |-> [NewProgram EXCEPT !.enrolled = 2]]
  /\ Enrollment = {ApprovedRow(1, "m1", "A"), ApprovedRow(2, "v1", "A"),
                   PendingRow(3, "v2", "A"),
                   ApprovedRow(4, "m1", "B"), ApprovedRow(5, "v1", "B")}
  /\ BuddyAssignment = {}
  /\ enrollment_open = TRUE
  /\ settings_rows = {SettingsPk}
  /\ RoleEnrollmentRequirement = {}
  /\ session = [u \in Users |-> <<>>]
  /\ req = [s \in Slots |-> IdleReq]
  /\ consumed = {}
  /\ budget = MaxPairingRequests

NextPairing ==
  \/ \E s \in Slots : ajax_update_buddy_assignment(s)
  \/ \E s \in Slots : ajax_update_buddy_assign(s)
  \/ all_members_assign_buddy
  \/ \E s \in Slots : all_volunteers_update_enrollment_status(s)
  \/ \E s \in Slots : UpdateStatusSaveEnrollment(s)
  \/ \E s \in Slots : UpdateStatusLoadProgram(s)
  \/ \E s \in Slots : UpdateStatusSaveProgram(s)

SpecPairing == InitPairing /\ [][NextPairing]_vars

\* ------------------------------------------------ pairing before approval
\* Program A while the member still waits for review: both volunteers are
\* approved, the member's Enrollment is pending.
MaxMemberReviewRequests == 3

InitMemberReview ==
  /\ Program = [p \in Programs |->
                  IF p = "A" THEN [NewProgram EXCEPT !.enrolled = 2] ELSE NewProgram]
  /\ Enrollment = {PendingRow(1, "m1", "A"), ApprovedRow(2, "v1", "A"),
                   ApprovedRow(3, "v2", "A")}
  /\ BuddyAssignment = {}
  /\ enrollment_open = TRUE
  /\ settings_rows = {SettingsPk}
  /\ RoleEnrollmentRequirement = {}
  /\ session = [u \in Users |-> <<>>]
  /\ req = [s \in Slots |-> IdleReq]
  /\ consumed = {}
  /\ budget = MaxMemberReviewRequests

NextMemberReview ==
  \/ \E s \in Slots : ajax_update_buddy_assignment(s)
  \/ \E s \in Slots : ajax_update_buddy_assign(s)
  \/ \E s \in Slots : ajax_update_enrollment_status(s)
  \/ \E s \in Slots : UpdateStatusSaveEnrollment(s)
  \/ \E s \in Slots : UpdateStatusLoadProgram(s)
  \/ \E s \in Slots : UpdateStatusSaveProgram(s)

SpecMemberReview == InitMemberReview /\ [][NextMemberReview]_vars

\* ------------------------------------------ confirmation after closure
\* confirmations while a manager opens and closes enrollment
MaxClosureRequests == 3

InitClosure ==
  /\ Program = [p \in Programs |-> NewProgram]
  /\ Enrollment = {}
  /\ BuddyAssignment = {}
  /\ enrollment_open = TRUE
  /\ settings_rows = {SettingsPk}
  /\ RoleEnrollmentRequirement = {}
  /\ session = [u \in Users |-> IF u = "m1"
                                 THEN <<Item("A", 1), Item("B", 2)>> ELSE <<>>]
  /\ req = [s \in Slots |-> IdleReq]
  /\ consumed = {}
  /\ budget = MaxClosureRequests

NextClosure ==
  \/ toggle_enrollment_status
  \/ \E s \in Slots : checkout_view(s)
  \/ \E s \in Slots : process_enrollment(s)
  \/ \E s \in Slots : process_enrollment_enroll(s)
  \/ \E s \in Slots : process_enrollment_clear_session(s)
  \/ \E s \in Slots : volunteer_program_selection_view(s)
  \/ \E s \in Slots : volunteer_program_selection_enroll(s)

SpecClosure == InitClosure /\ [][NextClosure]_vars

\* ------------------------------------------------ one payment, two baskets
\* The member stored the Selection [A rank 1] and paid for it.
MaxReplayRequests == 3

InitReplay ==
  /\ Program = [p \in Programs |-> NewProgram]
  /\ Enrollment = {}
  /\ BuddyAssignment = {}
  /\ enrollment_open = TRUE
  /\ settings_rows = {SettingsPk}
  /\ RoleEnrollmentRequirement = {}
  /\ session = [u \in Users |-> IF u = "m1" THEN <<Item("A", 1)>> ELSE <<>>]
  /\ req = [s \in Slots |-> IdleReq]
  /\ consumed = {}
  /\ budget = MaxReplayRequests

NextReplay ==
  \/ program_selection_view
  \/ \E s \in Slots : process_enrollment(s)
  \/ \E s \in Slots : process_enrollment_enroll(s)
  \/ \E s \in Slots : process_enrollment_clear_session(s)

SpecReplay == InitReplay /\ [][NextReplay]_vars

\* ------------------------------------------ staff endpoints, any signed-in role
\* The four endpoints sit behind login_required only: every role can post to them.
MaxRoleRequests == 2
Callers == Users \cup PersonCenteredManagers

post_enrollment_status(s) ==
  \E entry \in StatusEntries, actor \in Callers, eid \in 0 .. MaxId(Enrollment),
     st \in PostedStatuses :
    UpdateStatusStart(s, entry, actor, eid, st)

post_buddy_assignment(s) ==
  \E actor \in Callers, eid \in 0 .. MaxId(Enrollment), v \in PostedVolunteers :
    BuddyAssignmentStart(s, actor, eid, v)

post_assign_buddy ==
  \E actor \in Callers, eid \in 0 .. MaxId(Enrollment), v \in PostedVolunteers :
    AssignBuddyAction(actor, eid, v)

InitRoles ==
  /\ Program = [p \in Programs |->
                  IF p = "A" THEN [NewProgram EXCEPT !.enrolled = 2] ELSE NewProgram]
  /\ Enrollment = {ApprovedRow(1, "m1", "A"), ApprovedRow(2, "v1", "A")}
  /\ BuddyAssignment = UpdateOrCreateBuddy({}, "A", "m1", "v1")
  /\ enrollment_open = TRUE
  /\ settings_rows = {SettingsPk}
  /\ RoleEnrollmentRequirement = {}
  /\ session = [u \in Users |-> <<>>]
  /\ req = [s \in Slots |-> IdleReq]
  /\ consumed = {}
  /\ budget = MaxRoleRequests

NextRoles ==
  \/ \E s \in Slots : post_enrollment_status(s)
  \/ \E s \in Slots : UpdateStatusSaveEnrollment(s)
  \/ \E s \in Slots : UpdateStatusLoadProgram(s)
  \/ \E s \in Slots : UpdateStatusSaveProgram(s)
  \/ \E s \in Slots : post_buddy_assignment(s)
  \/ \E s \in Slots : ajax_update_buddy_assign(s)
  \/ post_assign_buddy

SpecRoles == InitRoles /\ [][NextRoles]_vars

\* ==================================================================== claims
Settled == \A s \in Slots : Free(s)
\* slot s takes a step: every step of a handler moves its pc or its loop index
Step(s) ==
  \/ req'[s].pc # req[s].pc
  \/ req'[s].i # req[s].i
  \/ req'[s].kind # req[s].kind
  \/ req'[s].resp # req[s].resp
ConfirmKinds == {"process_enrollment", "volunteer_selection"}

\* C1: once no request is in flight, every program's enrolled equals the number
\* of its Enrollment rows whose status is approved.
CounterMatchesApproved ==
  Settled => \A p \in Programs :
               Program[p].enrolled = Cardinality(Approved(Enrollment, p))

\* C2: capacity 2, enrolled 0, three pending rows of program A, three staff
\* updates that approve them: when all three are done, enrolled is 3.
ThreeApprovalsCountThree ==
  ( /\ Settled
    /\ budget = MaxStatusRequests - 3
    /\ \A e \in Enrollment : e.status = "approved" )
  => Program["A"].enrolled = 3

\* C3: a staff status update changes the program's counter by the delta that
\* the previous and the new status decide (+1, -1 floored at 0, or 0), and by
\* nothing else.
CounterChangeIsStatusDelta ==
  [][\A s \in Slots :
       ( /\ req[s].kind \in StatusEntries
         /\ req[s].pc \in {"save_enrollment", "load_program", "save_program"}
         /\ Step(s) )
       => IF req[s].pc = "save_program"
          THEN Program'[req[s].pid].enrolled =
                 Max0(Program[req[s].pid].enrolled
                      + StatusDelta(req[s].old_status, req[s].new_status))
          ELSE Program' = Program]_vars

\* the transitions the state machine allows; withdrawal is open from any state
AllowedTransitions ==
  {<<"pending", "approved">>, <<"pending", "waitlisted">>, <<"pending", "rejected">>,
   <<"approved", "waitlisted">>, <<"approved", "rejected">>, <<"approved", "withdrawn">>,
   <<"waitlisted", "approved">>, <<"waitlisted", "withdrawn">>,
   <<"rejected", "approved">>, <<"rejected", "withdrawn">>,
   <<"pending", "withdrawn">>}

\* C4: a staff status update that asks for a transition outside the allowed
\* set changes neither the Enrollment table nor a program's counter.
InvalidTransitionRejected ==
  [][\A s \in Slots :
       ( /\ req[s].kind \in StatusEntries
         /\ req[s].pc \in {"save_enrollment", "load_program", "save_program"}
         /\ Step(s)
         /\ req[s].old_status # req[s].new_status
         /\ <<req[s].old_status, req[s].new_status>> \notin AllowedTransitions )
       => /\ Enrollment' = Enrollment
          /\ Program' = Program
          /\ req'[s].pc = "done" => req'[s].resp = "invalid_status"]_vars

\* C5: a confirmation that ends in a rejection has written no Enrollment row:
\* the rows of a Selection are persisted for every program or for none.
ConfirmAllOrNothing ==
  [][\A s \in Slots :
       ( /\ req[s].kind \in ConfirmKinds
         /\ req[s].pc = "enroll"
         /\ req'[s].pc = "done"
         /\ req'[s].resp # "ok" )
       => req[s].written = {}]_vars

Paid(intent) == intent # Nil /\ IntentStatus(intent) = "succeeded"
PaymentErrors == {"missing_payment_intent", "invalid_payment", "payment_not_completed"}

\* C6: a member's confirmation gets past the payment gate only with a payment
\* intent that reports success; without one it answers an error and no step
\* of it changes the Enrollment table, and the no-payment volunteer path never
\* enrolls a member.
NoEnrollmentWithoutPayment ==
  /\ [](\A s \in Slots :
          /\ (req[s].kind = "process_enrollment"
              /\ req[s].pc \in {"enroll", "clear_session"}) => Paid(req[s].intent)
          /\ (req[s].kind = "process_enrollment"
              /\ req[s].pc = "done" /\ ~Paid(req[s].intent))
               => req[s].resp \in PaymentErrors
          /\ (req[s].kind = "volunteer_selection" /\ req[s].pc = "enroll")
               => Role(req[s].actor) # "member")
  /\ [][\A s \in Slots :
          (Step(s) /\ req'[s].kind = "process_enrollment" /\ ~Paid(req'[s].intent))
          => Enrollment' = Enrollment /\ Program' = Program]_vars

\* C6 witness: a basket was stored, the posted intent was still processing,
\* the confirmation answered "payment not completed" and no row exists.
PaymentRefused ==
  /\ session["m1"] # <<>>
  /\ Enrollment = {}
  /\ \E s \in Slots : /\ req[s].kind = "process_enrollment"
                      /\ req[s].pc = "done"
                      /\ req[s].intent = "pi_processing"
                      /\ req[s].resp = "payment_not_completed"

\* C7: a confirmation called with a payment intent that an earlier, completed
\* confirmation of the same user already consumed changes no Enrollment row.
ReplayChangesNothing ==
  [][\A s \in Slots :
       ( /\ req[s].kind = "process_enrollment"
         /\ req[s].pc = "enroll"
         /\ req[s].replay
         /\ Step(s) )
       => Enrollment' = Enrollment]_vars

\* C8: a confirmation step for a (user, program) pair that already has an
\* Enrollment leaves that row's status and the program's counter unchanged.
AlreadyEnrolledIsNoop ==
  [][\A s \in Slots :
       ( /\ req[s].kind \in ConfirmKinds
         /\ req[s].pc = "enroll"
         /\ Step(s) )
       => LET p == req[s].selections[req[s].i].program_id
              old == RowsOf(Enrollment, req[s].actor, p)
          IN  old # {} =>
                /\ \A e \in old :
                     \E n \in RowsOf(Enrollment', req[s].actor, p) : n.status = e.status
                /\ Program' = Program]_vars

\* C9: there is at most one Enrollment row per (user, program) pair.
EnrollmentPairUnique ==
  \A e1, e2 \in Enrollment :
    (e1.user = e2.user /\ e1.program = e2.program) => e1 = e2

\* C9 witness: a staff add-user saw no row, another request created the pair
\* first, and the add-user's insert was refused.
AddUserLostRace ==
  /\ Enrollment # {}
  /\ \E s \in Slots : /\ req[s].kind = "add_user"
                      /\ req[s].pc = "done"
                      /\ req[s].resp = "error"

\* C10: a (program, member) key has at most one BuddyAssignment row, and a
\* step that writes a key which already has a row keeps that one row.
BuddyKeyHasOneRow ==
  /\ [](\A b1, b2 \in BuddyAssignment :
          (b1.program = b2.program /\ b1.member_user = b2.member_user) => b1 = b2)
  /\ [][\A p \in Programs, m \in Users :
          (BuddyRows(BuddyAssignment, p, m) # {} /\ BuddyRows(BuddyAssignment', p, m) # {})
          => /\ Cardinality(BuddyRows(BuddyAssignment', p, m)) = 1
             /\ {b.id : b \in BuddyRows(BuddyAssignment', p, m)}
                  = {b.id : b \in BuddyRows(BuddyAssignment, p, m)}]_vars

\* C10 witness: two assignments of different volunteers to the member of
\* program A have completed and the key holds a single row.
BuddyReplaced ==
  /\ Cardinality(BuddyRows(BuddyAssignment, "A", "m1")) = 1
  /\ \E s, t \in Slots : /\ req[s].kind = "ajax_buddy" /\ req[s].resp = "ok"
                         /\ req[t].kind = "ajax_buddy" /\ req[t].resp = "ok"
                         /\ req[s].volunteer # req[t].volunteer

\* does user v hold an approved Enrollment in program p
HoldsApproved(v, p) == \E e \in RowsOf(Enrollment, v, p) : e.status = "approved"

\* C11: no step writes a BuddyAssignment row (new, or with a changed volunteer)
\* whose volunteer does not hold an approved Enrollment in the row's program.
AssignNeedsApprovedVolunteer ==
  [][\A b \in BuddyAssignment' \ BuddyAssignment :
       HoldsApproved(b.volunteer_user, b.program)]_vars

\* C12: no step writes a BuddyAssignment row whose member side is a user
\* without the member role.
AssignNeedsMemberRole ==
  [][\A b \in BuddyAssignment' \ BuddyAssignment :
       Role(b.member_user) = "member"]_vars

\* C13: when a staff status update that withdraws an approved Enrollment has
\* completed, no BuddyAssignment of that program names that user as the
\* volunteer.
WithdrawalRemovesBuddy ==
  [][\A s \in Slots :
       ( /\ req[s].kind \in StatusEntries
         /\ req[s].pc \in {"load_program", "save_program"}
         /\ req'[s].pc = "done"
         /\ req[s].old_status = "approved"
         /\ req[s].new_status = "withdrawn" )
       => \A b \in BuddyAssignment' :
            ~(b.program = req[s].pid /\ b.volunteer_user = req[s].enrollment.user)]_vars

\* C14: unassign is an idempotent removal.  On every reachable table and for
\* every key, the removal leaves no row of the key, leaves the rows of the
\* other keys as they were, and applied again changes nothing; and a request
\* answered "removed" has left exactly that table behind.
UnassignIsIdempotent ==
  /\ [](\A p \in Programs, m \in Users :
          LET after == DeleteBuddy(BuddyAssignment, p, m)
          IN  /\ BuddyRows(after, p, m) = {}
              /\ after = BuddyAssignment \ BuddyRows(BuddyAssignment, p, m)
              /\ DeleteBuddy(after, p, m) = after)
  /\ [][\A s \in Slots :
          ( /\ Step(s)
            /\ req'[s].kind = "ajax_buddy"
            /\ req'[s].resp = "removed" )
          => /\ BuddyRows(BuddyAssignment', req'[s].pid, req'[s].target) = {}
             /\ BuddyAssignment' =
                  BuddyAssignment \ BuddyRows(BuddyAssignment, req'[s].pid, req'[s].target)]_vars
  /\ [][\A b \in BuddyAssignment \ BuddyAssignment' :
          \/ BuddyRows(BuddyAssignment', b.program, b.member_user) = {}
          \/ \E n \in BuddyAssignment' : n.id = b.id]_vars

\* C14 witness: the member's mapping in A was removed (its row, the first one
\* written, is gone) while the mapping of another key is still there, and an
\* unassign of that key was answered as a success.
UnassignRemovedMapping ==
  /\ BuddyRows(BuddyAssignment, "A", "m1") = {}
  /\ \E b \in BuddyAssignment : b.id = 2
  /\ \A b \in BuddyAssignment : b.id # 1
  /\ \E s \in Slots : /\ req[s].kind = "ajax_buddy" /\ req[s].resp = "removed"
                      /\ req[s].pid = "A" /\ req[s].target = "m1"

\* C15: available_spots of a program whose capacity is set is
\* max(capacity - enrolled, 0), never negative, also when enrolled exceeds
\* capacity; for a program whose capacity is absent the answer is "unlimited",
\* not a failure.
AvailableSpotsTotal ==
  \A s \in Slots :
    (req[s].kind \in {"program_detail", "available_spots"} /\ req[s].pc = "done")
    => IF req[s].program.capacity = NoCapacity
       THEN req[s].resp = "unlimited"
       ELSE /\ req[s].resp = "ok"
            /\ req[s].spots >= 0
            /\ req[s].spots = Max0(req[s].program.capacity - req[s].program.enrolled)

StatusResponses == {"ok", "denied", "not_found", "invalid_status"}

\* C16: capacity never blocks an approval.  A staff status update answers
\* nothing but success, denied, not found or invalid status, and its counter
\* step for a transition into approved writes the fetched enrolled plus one
\* and answers success, whatever the program's capacity.
CapacityNeverBlocks ==
  [][\A s \in Slots :
       /\ (Step(s) /\ req'[s].kind \in StatusEntries /\ req'[s].pc = "done")
            => req'[s].resp \in StatusResponses
       /\ ( /\ req[s].kind \in StatusEntries
            /\ req[s].pc = "save_program"
            /\ Step(s)
            /\ StatusDelta(req[s].old_status, req[s].new_status) = 1 )
            => /\ Program'[req[s].pid].enrolled = req[s].program.enrolled + 1
               /\ req'[s].resp = "ok"]_vars

\* C16 witness: program A, already at its capacity of 1, holds two approved
\* Enrollments after an approval completed, and its counter says 2.
OverCapacity ==
  /\ Settled
  /\ Program["A"].capacity = 1
  /\ Cardinality(Approved(Enrollment, "A")) = 2
  /\ Program["A"].enrolled = 2
  /\ \E s \in Slots : req[s].kind \in StatusEntries /\ req[s].resp = "ok"

ActiveRequirement(role) ==
  \E r \in RoleEnrollmentRequirement : r.role = role /\ r.is_active

\* C17: while the enrollment toggle is closed, every answer of an enrollment
\* entry point is the closure reason and nothing else, whatever the state of
\* the user's profile and surveys.
ClosedAnswersClosure ==
  [][\A s \in Slots :
       ( /\ Step(s)
         /\ req'[s].kind \in GateEntries
         /\ req'[s].pc = "done"
         /\ ~enrollment_open )
       => req'[s].resp = "closed"]_vars

\* C18: while enrollment is open and the user's role has no active
\* RoleEnrollmentRequirement, the catalog and the checkout admit the user,
\* whatever the state of the user's profile and surveys.
OpenWithoutRequirementAdmits ==
  [][\A s \in Slots :
       ( /\ Step(s)
         /\ req'[s].kind \in GateEntries
         /\ req'[s].pc = "done"
         /\ enrollment_open
         /\ ~ActiveRequirement(Role(req'[s].actor)) )
       => req'[s].resp \in {"ok", "no_selection"}]_vars

\* rows of program p that a step inserted
Created(p) ==
  {e \in Enrollment' : e.program = p /\ RowsById(Enrollment, e.enrollment_id) = {}}

\* C19: a step that writes the Enrollment table changes each program's
\* enrolled by the number of rows it created as approved for that program:
\* one for a row created approved, nothing for a row created with another
\* status, nothing for an existing row saved again.
CreationIncrement ==
  [][\A p \in Programs :
       Enrollment' # Enrollment
       => Program'[p].enrolled =
            Program[p].enrolled
              + Cardinality({e \in Created(p) : e.status = "approved"})]_vars

\* C19 witness: the admin site created a row as approved and the counter of
\* its program went from 0 to 1; another request saved an existing row again.
CreatedApprovedCounted ==
  \E s, t \in Slots :
    /\ req[s].kind = "admin_add"
    /\ req[s].resp = "ok"
    /\ req[s].enrollment.status = "approved"
    /\ req[s].enrollment \in Enrollment
    /\ Program[req[s].enrollment.program].enrolled = 1
    /\ req[t].kind = "admin_change"
    /\ req[t].resp = "ok"

StatusChangesAreListed ==
  [][\A e \in Enrollment, f \in Enrollment' :
       (e.enrollment_id = f.enrollment_id /\ e.status # f.status)
       => <<e.status, f.status>> \in AllowedTransitions]_vars

\* rows that a step inserted
CreatedRows == {e \in Enrollment' : RowsById(Enrollment, e.enrollment_id) = {}}

\* C22: every row that a confirmation or the staff add-user creates starts
\* pending, and a row that a confirmation creates belongs to the confirming
\* user and carries the rank its program has in the Selection.
CreatedRowsStartPending ==
  [][/\ \A e \in CreatedRows : e.status = "pending"
     /\ \A s \in Slots :
          (req[s].kind \in ConfirmKinds /\ req[s].pc = "enroll" /\ Step(s))
          => \A e \in CreatedRows :
               /\ e.user = req[s].actor
               /\ e.program = req[s].selections[req[s].i].program_id
               /\ e.preference_order = req[s].selections[req[s].i].rank]_vars

\* C22 witness: the member's confirmation of [A rank 1, B rank 2] completed
\* and the row it created for B is pending with preference_order 2.
ConfirmedWithRanks ==
  /\ \E s \in Slots : req[s].kind = "process_enrollment" /\ req[s].resp = "ok"
  /\ \E e \in Enrollment :
       /\ e.user = "m1" /\ e.program = "B"
       /\ e.status = "pending" /\ e.preference_order = 2

\* C23: once no request is in flight, every BuddyAssignment belongs to a
\* member who holds an approved Enrollment in the assignment's program.
BuddyMemberIsApproved ==
  Settled => \A b \in BuddyAssignment : HoldsApproved(b.member_user, b.program)

\* C27: an administrative deletion lowers the program's enrolled by one
\* (not below 0) when the deleted Enrollment was approved and leaves it
\* unchanged when the deleted Enrollment had any other status.
DeletionCountsApprovedOnly ==
  [][\A s \in Slots :
       (Step(s) /\ req'[s].kind = "admin_delete" /\ req'[s].resp = "ok")
       => LET row == req'[s].enrollment
              was == Program[row.program].enrolled
          IN  Program'[row.program].enrolled =
                IF row.status = "approved" THEN Max0(was - 1) ELSE was]_vars

\* C24: enrolled is never negative, and a decrement that finds enrolled at 0
\* (a transition out of approved, or the deletion of an approved row) leaves
\* it at 0 and is flagged: its outcome differs from the plain success of a
\* decrement that was not clamped.
ClampedDecrementIsFlagged ==
  /\ [](\A p \in Programs : Program[p].enrolled >= 0)
  /\ [][\A s \in Slots :
          /\ ( /\ req[s].kind \in StatusEntries
               /\ req[s].pc = "save_program"
               /\ Step(s)
               /\ StatusDelta(req[s].old_status, req[s].new_status) = 0 - 1
               /\ req[s].program.enrolled = 0 )
             => /\ Program'[req[s].pid].enrolled = 0
                /\ req'[s].resp # "ok"
          /\ ( /\ Step(s)
               /\ req'[s].kind = "admin_delete"
               /\ req'[s].pc = "done"
               /\ req'[s].enrollment.status = "approved"
               /\ Program[req'[s].enrollment.program].enrolled = 0 )
             => /\ Program'[req'[s].enrollment.program].enrolled = 0
                /\ req'[s].resp # "ok"]_vars

\* C25: the save of a staff edit of a program's descriptive fields leaves
\* every program's enrolled at the value it had right before the save.
EditLeavesEnrolled ==
  [][\A s \in Slots :
       (req[s].kind = "program_edit" /\ req[s].pc = "save" /\ Step(s))
       => \A p \in Programs : Program'[p].enrolled = Program[p].enrolled]_vars

\* C26: concurrent assignments to one (program, member) key all succeed, the
\* key never has more than one row, and right after a request's write the
\* row holds that request's volunteer: the last write wins, whether or not a
\* mapping existed before.
LastAssignWins ==
  /\ [](\A b1, b2 \in BuddyAssignment :
          (b1.program = b2.program /\ b1.member_user = b2.member_user) => b1 = b2)
  /\ [](\A s \in Slots :
          (req[s].kind = "ajax_buddy" /\ req[s].pc = "done"
           /\ req[s].resp \notin {"not_found", "not_a_member", "volunteer_not_enrolled"})
          => req[s].resp = "ok")
  /\ [][\A s \in Slots :
          ( /\ req[s].kind = "ajax_buddy"
            /\ req[s].pc \in {"create", "update"}
            /\ req'[s].pc = "done" )
          => /\ req'[s].resp = "ok"
             /\ {b.volunteer_user :
                   b \in BuddyRows(BuddyAssignment', req[s].pid, req[s].target)}
                  = {req[s].volunteer}]_vars

\* C26 witness: no mapping existed; two requests for the key (A, m1) both
\* found nothing; the one posting v1 inserted the row and succeeded, the one
\* posting v2 got the IntegrityError and is about to look the row up again.
AssignRaceLost ==
  \E s, t \in Slots :
    /\ req[s].kind = "ajax_buddy" /\ req[s].resp = "ok" /\ req[s].volunteer = "v1"
    /\ req[t].kind = "ajax_buddy" /\ req[t].pc = "get_again"
    /\ req[t].volunteer = "v2" /\ req[t].pid = "A" /\ req[t].target = "m1"
    /\ {b.volunteer_user : b \in BuddyRows(BuddyAssignment, "A", "m1")} = {"v1"}

\* C28: while the enrollment toggle is closed, no step of a user's own
\* confirmation creates or modifies an Enrollment row.
ClosedMeansNoConfirmationWrites ==
  [][\A s \in Slots :
       ( /\ req[s].kind \in ConfirmKinds
         /\ req[s].pc = "enroll"
         /\ Step(s)
         /\ ~enrollment_open )
       => Enrollment' = Enrollment]_vars

\* C30: a confirmation that presents a payment intent which an earlier,
\* completed confirmation of the same user already used creates no
\* Enrollment row, whatever Selection is stored by then.
UsedPaymentCreatesNoRow ==
  [][\A s \in Slots :
       ( /\ req[s].kind = "process_enrollment"
         /\ req[s].pc = "enroll"
         /\ req[s].replay
         /\ Step(s) )
       => CreatedRows = {}]_vars

StaffKinds == StatusEntries \cup {"ajax_buddy"}
StaffTables == <<Program, Enrollment, BuddyAssignment>>
NonManagers == Callers \ Managers

\* C29: only a manager changes an Enrollment's status, a counter or a
\* BuddyAssignment: the same request posted by a member, a volunteer or a
\* person-centered manager, to the AJAX endpoints or to the POST actions of the
\* members and volunteers pages, is refused and changes none of the three; every
\* request that gets past the first step, and every step that changes one of the
\* three, belongs to a manager.
OnlyManagersWrite ==
  /\ [](\A s \in Slots :
          (req[s].kind \in StaffKinds /\ ~Free(s)) => Role(req[s].actor) = "manager")
  /\ [][\A actor \in NonManagers, eid \in 0 .. MaxId(Enrollment) :
          /\ \A s \in Slots :
               ( \/ \E entry \in StatusEntries, st \in PostedStatuses :
                      UpdateStatusStart(s, entry, actor, eid, st)
                 \/ \E v \in PostedVolunteers :
                      BuddyAssignmentStart(s, actor, eid, v) )
               => /\ StaffTables' = StaffTables
                  /\ req'[s].pc = "done"
                  /\ req'[s].resp = "denied"
          /\ (\E v \in PostedVolunteers : AssignBuddyAction(actor, eid, v))
               => StaffTables' = StaffTables]_vars
  /\ [][StaffTables' # StaffTables
          => \/ \E s \in Slots :
                  /\ req[s].kind \in StaffKinds /\ ~Free(s) /\ Step(s)
                  /\ Role(req[s].actor) = "manager"
             \/ \E actor \in Managers, eid \in 0 .. MaxId(Enrollment),
                   v \in PostedVolunteers :
                  \/ AssignBuddyAction(actor, eid, v)
                  \/ \E s \in Slots : BuddyAssignmentStart(s, actor, eid, v)]_vars

\* a refused status request and a refused pairing request have both finished and
\* the rows, the counter and the mapping are as they were before them
RefusedRequestsChangedNothing ==
  /\ \E s \in Slots : req[s].kind \in StatusEntries /\ req[s].resp = "denied"
  /\ \E s \in Slots : req[s].kind = "ajax_buddy" /\ req[s].resp = "denied"
  /\ budget = 0
  /\ Program["A"].enrolled = 2
  /\ Enrollment = {ApprovedRow(1, "m1", "A"), ApprovedRow(2, "v1", "A")}
  /\ BuddyAssignment = UpdateOrCreateBuddy({}, "A", "m1", "v1")

====
